---------------------------- MODULE Spec2Model ----------------------------
(***************************************************************************)
(* A model of civ6save-editing: the container codec (decompress,           *)
(* recompress, modify) of src/index.js and the tile table codec            *)
(* (modifytiles, savetomapjson) of src/index.js and src/unnamed/part_000.  *)
(*                                                                         *)
(* A Buffer is a sequence of bytes 0..255.  The code's offsets are         *)
(* 0-based; offset k of a Buffer b is b[k + 1] here.                       *)
(*                                                                         *)
(* The chunk length of the framing is 64 * 1024 in the source.  It is      *)
(* scaled down here (CHUNK_LENGTH) so that compressed streams of one, two  *)
(* and three chunks are small; every formula is stated in terms of         *)
(* CHUNK_LENGTH.                                                           *)
(***************************************************************************)
EXTENDS Integers, Sequences, FiniteSets, TLC

VARIABLES
  savefile,   \* the .Civ6Save Buffer handed to the exported function
  bin,        \* the decompressed Buffer the tile codec works on
  op,         \* the exported function that ran last ("" before any)
  arg,        \* its second argument (binfile or callback), "" if none
  out,        \* what it returned or threw
  orig,       \* the savefile before the first reload, once reloaded (history)
  round       \* how many times a returned save was fed back as savefile

vars == <<savefile, bin, op, arg, out, orig, round>>

----------------------------------------------------------------------------
(* Bounds and constants *)

\* Chunk length of the framing; 64 * 1024 in the source, scaled down.
CHUNK_LENGTH == 16

\* decompress names the same length chunkSize.
chunkSize == CHUNK_LENGTH

\* How many times the save a call returned is fed back as the next savefile.
MaxRounds == 2

Min(a, b) == IF a < b THEN a ELSE b
Max(a, b) == IF a > b THEN a ELSE b

\* 'MOD_TITLE' as bytes
MOD_TITLE == <<77, 79, 68, 95, 84, 73, 84, 76, 69>>
\* new Buffer([0x78, 0x9c])
ZlibStart == <<120, 156>>
\* new Buffer([0x00, 0x00, 0xFF, 0xFF])
SyncFlush == <<0, 0, 255, 255>>

----------------------------------------------------------------------------
(* Results of a call: a returned value or a thrown error *)

\* calls: the calls of the per-tile callback made on the way (modifytiles)
Ok(v) == [ok |-> TRUE, val |-> v, err |-> "", calls |-> <<>>]
Throw(e) == [ok |-> FALSE, val |-> <<>>, err |-> e, calls |-> <<>>]
NoResult == Throw("none")

----------------------------------------------------------------------------
(* Node's Buffer primitives, as the code uses them *)

\* buf.slice(start, end): negative offsets count from the end, both are
\* clamped to the buffer, and an end at or before start gives an empty Buffer.
Slice(buf, start, end) ==
  LET n == Len(buf)
      s == IF start < 0 THEN Max(n + start, 0) ELSE Min(start, n)
      e == IF end < 0 THEN Max(n + end, 0) ELSE Min(end, n)
  IN IF e <= s THEN <<>> ELSE SubSeq(buf, s + 1, e)

\* buf.slice(start)
SliceFrom(buf, start) == Slice(buf, start, Len(buf))

\* needle occurs in buf at offset i
MatchesAt(buf, needle, i) ==
  /\ i >= 0
  /\ i + Len(needle) <= Len(buf)
  /\ \A j \in 1..Len(needle) : buf[i + j] = needle[j]

\* buf.indexOf(needle, byteOffset): the first occurrence at or after
\* byteOffset, -1 if none; a negative byteOffset counts from the end.
IndexOf(buf, needle, byteOffset) ==
  LET n == Len(buf)
      from == IF byteOffset < 0 THEN Max(n + byteOffset, 0) ELSE byteOffset
      S == {i \in from..(n - Len(needle)) : MatchesAt(buf, needle, i)}
  IN IF S = {} THEN -1 ELSE CHOOSE i \in S : \A j \in S : i <= j

\* buf.lastIndexOf(needle): the last occurrence, -1 if none.
LastIndexOf(buf, needle) ==
  LET S == {i \in 0..(Len(buf) - Len(needle)) : MatchesAt(buf, needle, i)}
  IN IF S = {} THEN -1 ELSE CHOOSE i \in S : \A j \in S : j <= i

\* intbuf.writeInt32LE(n) on a fresh 4-byte Buffer, n a signed 32-bit
\* integer.  (TLC's integers are 32-bit, so 2^32 is never written out.)
Int32LE(n) ==
  LET low == IF n >= 0 THEN n ELSE (n + 2147483647) + 1
      top == IF n >= 0 THEN 0 ELSE 128
  IN <<low % 256, (low \div 256) % 256, (low \div 65536) % 256,
       (low \div 16777216) + top>>

----------------------------------------------------------------------------
(* zlib, as the code calls it.                                             *)
(*                                                                         *)
(* zlib.deflateSync(b, {finishFlush: Z_SYNC_FLUSH}) returns a zlib stream  *)
(* that starts with the header 78 9C, holds deflate blocks and ends with   *)
(* the empty stored block of the sync flush, 00 00 FF FF after its header  *)
(* bits; no final block and no checksum follow.  The blocks are modelled   *)
(* as stored blocks (one of the encodings deflate may choose): a header    *)
(* byte 00, LEN and its complement NLEN as 16-bit little-endian words,     *)
(* then LEN literal bytes.                                                 *)
(***************************************************************************)

\* the largest stored block
MaxStored == 65535

UInt16LE(n) == <<n % 256, (n \div 256) % 256>>

StoredBlock(data) ==
  <<0>> \o UInt16LE(Len(data)) \o UInt16LE(MaxStored - Len(data)) \o data

RECURSIVE DeflateBlocks(_)
DeflateBlocks(b) ==
  IF Len(b) = 0 THEN <<>>
  ELSE LET n == Min(Len(b), MaxStored)
       IN StoredBlock(SubSeq(b, 1, n)) \o DeflateBlocks(SubSeq(b, n + 1, Len(b)))

\* zlib.deflateSync(binfile, {finishFlush: zlib.Z_SYNC_FLUSH})
Deflate(b) == ZlibStart \o DeflateBlocks(b) \o StoredBlock(<<>>)

\* The two header bytes are a zlib header: method 8, window at most 32K,
\* no preset dictionary, and a check value that makes them a multiple of 31.
ZlibHeaderOk(cmf, flg) ==
  /\ cmf % 16 = 8
  /\ cmf \div 16 <= 7
  /\ (flg \div 32) % 2 = 0
  /\ (cmf * 256 + flg) % 31 = 0

\* Inflating the blocks of d from offset pos on, acc being the output so
\* far.  Under finishFlush Z_SYNC_FLUSH input that ends early is no error:
\* what was inflated so far is returned.  A block that is not a stored
\* block is outside this model ("unmodelled"), except the reserved block
\* type 3, which zlib rejects.
RECURSIVE InflateBlocks(_, _, _)
InflateBlocks(d, pos, acc) ==
  IF pos >= Len(d) THEN Ok(acc)
  ELSE LET hdr == d[pos + 1]
           bfinal == hdr % 2
           btype == (hdr \div 2) % 4
       IN IF btype = 3 THEN Throw("Z_DATA_ERROR")
          ELSE IF btype # 0 \/ bfinal = 1 THEN Throw("unmodelled")
          ELSE IF pos + 5 > Len(d) THEN Ok(acc)
          ELSE LET len == d[pos + 2] + 256 * d[pos + 3]
                   nlen == d[pos + 4] + 256 * d[pos + 5]
                   avail == Min(len, Len(d) - (pos + 5))
               IN IF len + nlen # MaxStored THEN Throw("Z_DATA_ERROR")
                  ELSE IF avail < len
                       THEN Ok(acc \o SubSeq(d, pos + 6, pos + 5 + avail))
                       ELSE InflateBlocks(d, pos + 5 + len,
                                          acc \o SubSeq(d, pos + 6, pos + 5 + len))

\* zlib.inflateSync(compressedData, {finishFlush: zlib.Z_SYNC_FLUSH})
Inflate(d) ==
  IF Len(d) < 2 THEN Ok(<<>>)
  ELSE IF ~ZlibHeaderOk(d[1], d[2]) THEN Throw("Z_DATA_ERROR")
  ELSE InflateBlocks(d, 2, <<>>)

----------------------------------------------------------------------------
(* The container codec: src/index.js, decompress, recompress, modify *)

\* decompress, lines 20-23: one iteration of the loop, at offset pos
UnframeChunk(data, pos) == Slice(data, pos, pos + chunkSize)

\* The iterations lo .. hi-1 of the loop, in order; iteration k is at
\* offset k * (chunkSize + 4).
RECURSIVE UnframeLoop(_, _, _)
UnframeLoop(data, lo, hi) ==
  IF hi <= lo THEN <<>>
  ELSE IF hi = lo + 1 THEN UnframeChunk(data, lo * (chunkSize + 4))
  ELSE LET mid == lo + ((hi - lo) \div 2)
       IN UnframeLoop(data, lo, mid) \o UnframeLoop(data, mid, hi)

\* decompress, lines 18-24: the chunks of data, 4 bytes dropped after each.
\* The loop runs while pos < data.length.
Unframe(data) ==
  UnframeLoop(data, 0, (Len(data) + chunkSize + 3) \div (chunkSize + 4))

decompress(civsav) ==
  LET modindex == LastIndexOf(civsav, MOD_TITLE)
      bufstartindex == IndexOf(civsav, ZlibStart, modindex)
      bufendindex == LastIndexOf(civsav, SyncFlush)
      data == Slice(civsav, bufstartindex, bufendindex)
      compressedData == Unframe(data)
  IN Inflate(compressedData)

\* A slip in the framing: the length field holds CHUNK_LENGTH, not the
\* length of the chunk that follows it.
FrameChunkFixedLength(compressedBuffer, i) ==
  (IF i # 0 THEN Int32LE(CHUNK_LENGTH) ELSE <<>>)
  \o Slice(compressedBuffer, i, i + CHUNK_LENGTH)

\* recompress, lines 46-52: one iteration of the loop, at offset i: the
\* chunk, preceded by its own length unless it is the first
FrameChunk(compressedBuffer, i) ==
  LET slice == Slice(compressedBuffer, i, i + CHUNK_LENGTH)
  IN (IF i # 0 THEN Int32LE(Len(slice)) ELSE <<>>)
     \o Slice(compressedBuffer, i, i + CHUNK_LENGTH)

\* The iterations lo .. hi-1 of the loop, in order; iteration k is at
\* offset k * CHUNK_LENGTH.
RECURSIVE FrameLoop(_, _, _)
FrameLoop(compressedBuffer, lo, hi) ==
  IF hi <= lo THEN <<>>
  ELSE IF hi = lo + 1 THEN FrameChunk(compressedBuffer, lo * CHUNK_LENGTH)
  ELSE LET mid == lo + ((hi - lo) \div 2)
       IN FrameLoop(compressedBuffer, lo, mid) \o FrameLoop(compressedBuffer, mid, hi)

\* finalBuffer of recompress, lines 45-55.  The loop runs while i < length.
Frame(compressedBuffer) ==
  FrameLoop(compressedBuffer, 0,
            (Len(compressedBuffer) + CHUNK_LENGTH - 1) \div CHUNK_LENGTH)

\* A slip in the splice: the end marker of the old stream is kept.
recompressKeepsMarker(civsav, binfile) ==
  LET finalBuffer == Frame(Deflate(binfile))
      modindex == LastIndexOf(civsav, MOD_TITLE)
      bufstartindex == IndexOf(civsav, ZlibStart, modindex)
      bufendindex == LastIndexOf(civsav, SyncFlush)
  IN Slice(civsav, 0, bufstartindex) \o finalBuffer \o SliceFrom(civsav, bufendindex)

recompress(civsav, binfile) ==
  LET compressedBuffer == Deflate(binfile)
      finalBuffer == Frame(compressedBuffer)
      modindex == LastIndexOf(civsav, MOD_TITLE)
      bufstartindex == IndexOf(civsav, ZlibStart, modindex)
      bufendindex == LastIndexOf(civsav, SyncFlush) + 4
  IN Slice(civsav, 0, bufstartindex) \o finalBuffer \o SliceFrom(civsav, bufendindex)

----------------------------------------------------------------------------
(* Reads of a Buffer.  Each read throws a RangeError when it leaves the    *)
(* buffer; the callers test InRange before they read.                      *)

InRange(b, off, n) == off >= 0 /\ off + n <= Len(b)

readUInt8(b, off) == b[off + 1]
readUInt16LE(b, off) == readUInt8(b, off) + 256 * readUInt8(b, off + 1)
\* An unsigned 32-bit value does not fit TLC's integers: it is read as its
\* two 16-bit halves, <<high, low>>.
readUInt32LE(b, off) == <<readUInt16LE(b, off + 2), readUInt16LE(b, off)>>
readInt8(b, off) ==
  IF readUInt8(b, off) >= 128 THEN readUInt8(b, off) - 256 ELSE readUInt8(b, off)
readInt16LE(b, off) ==
  IF readUInt16LE(b, off) >= 32768 THEN readUInt16LE(b, off) - 65536
  ELSE readUInt16LE(b, off)
readInt32LE(b, off) ==
  LET hi == readUInt16LE(b, off + 2)
      lo == readUInt16LE(b, off)
  IN IF hi >= 32768 THEN ((hi - 32768) * 65536 + lo - 2147483647) - 1
     ELSE hi * 65536 + lo

\* source.copy(target, targetStart): as many bytes of source as fit
Copy(source, target, targetStart) ==
  LET n == Min(Len(source), Len(target) - targetStart)
  IN IF n <= 0 THEN target
     ELSE SubSeq(target, 1, targetStart) \o SubSeq(source, 1, n)
          \o SubSeq(target, targetStart + n + 1, Len(target))

\* buf.toString('hex'): two hex digits (0..15) a byte, high digit first
Hex(b) ==
  [k \in 1..(2 * Len(b)) |->
     IF k % 2 = 1 THEN b[(k + 1) \div 2] \div 16 ELSE b[k \div 2] % 16]

\* x & mask for a mask of one bit
BitSet(x, mask) == (x \div mask) % 2 = 1

----------------------------------------------------------------------------
(* The tile table codec *)

\* searchBuffer: 0E 00 00 00 0F 00 00 00 06 00 00 00
searchBuffer == <<14, 0, 0, 0, 15, 0, 0, 0, 6, 0, 0, 0>>

\* mapsizedata: tile count -> row width x and row count y
mapsizedata ==
  (1144 :> [x |-> 44, y |-> 26]) @@ (2280 :> [x |-> 60, y |-> 38]) @@
  (3404 :> [x |-> 74, y |-> 46]) @@ (4536 :> [x |-> 84, y |-> 54]) @@
  (5760 :> [x |-> 96, y |-> 60]) @@ (6996 :> [x |-> 106, y |-> 66])

\* The callbacks handed to modifytiles in this model, each a function of
\* the tile Buffer it is given.
Mutators == {"identity", "terrain", "grow", "shrink"}

ApplyMutator(m, tilebuf) ==
  CASE m = "identity" -> tilebuf
    [] m = "terrain"  -> IF Len(tilebuf) > 12
                         THEN [tilebuf EXCEPT ![13] = (@ + 1) % 256]
                         ELSE tilebuf
    [] m = "grow"     -> tilebuf \o <<170, 187>>
    [] m = "shrink"   -> Slice(tilebuf, 0, Len(tilebuf) - 1)

\* modifytiles, lines 98-111: one iteration of the loop.  st holds the loop's
\* variables: bin, mindex, and calls, the (offset, length given, length
\* returned) of every call of the callback so far; st.err is the error thrown.
TileStep(st, m) ==
  IF st.err # "" THEN st
  ELSE IF ~InRange(st.bin, st.mindex + 49, 1) \/ ~InRange(st.bin, st.mindex + 51, 4)
  THEN [st EXCEPT !.err = "RangeError"]
  ELSE LET num2 == readUInt8(st.bin, st.mindex + 49)
           num == readUInt32LE(st.bin, st.mindex + 51)
           buflength == (IF num # <<0, 0>> THEN 24 ELSE 0) + (IF num2 >= 64 THEN 17 ELSE 0)
           tilebuf == Slice(st.bin, st.mindex, st.mindex + 55 + buflength)
           newtilebuf == ApplyMutator(m, tilebuf)
       IN [bin |-> Copy(newtilebuf, st.bin, st.mindex),
           mindex |-> st.mindex + 55 + buflength,
           calls |-> Append(st.calls, [off |-> st.mindex, len |-> Len(tilebuf),
                                       newlen |-> Len(newtilebuf)]),
           err |-> ""]

\* The iterations lo .. hi-1 of the loop, in order.
RECURSIVE TileLoop(_, _, _, _)
TileLoop(st, m, lo, hi) ==
  IF hi <= lo \/ st.err # "" THEN st
  ELSE IF hi = lo + 1 THEN TileStep(st, m)
  ELSE LET mid == lo + ((hi - lo) \div 2)
       IN TileLoop(TileLoop(st, m, lo, mid), m, mid, hi)

\* modifytiles, lines 92-114: the callback it hands to modify, run on bin
\* with the per-tile callback m.  Its result carries the calls made.
TilePass(b, m) ==
  LET mapstartindex == IndexOf(b, searchBuffer, 0)
  IN IF ~InRange(b, mapstartindex + 12, 4) THEN Throw("RangeError")
     ELSE LET tiles == readInt32LE(b, mapstartindex + 12)
              st == TileLoop([bin |-> b, mindex |-> mapstartindex + 16,
                              calls |-> <<>>, err |-> ""], m, 0, tiles)
          IN IF st.err # "" THEN Throw(st.err)
             ELSE [Ok(st.bin) EXCEPT !.calls = st.calls]

\* savetomapjson of src/unnamed/part_000, lines 153-233: one iteration of
\* the loop over bin b.  st holds mindex, the tiles pushed so far and the
\* error thrown.  '' is <<>>; buffer1_flag, a number or '', is <<n>> or <<>>.
MapStep(b, tiles, st, i) ==
  IF st.err # "" THEN st
  ELSE IF tiles \notin DOMAIN mapsizedata THEN [st EXCEPT !.err = "TypeError"]
  ELSE IF ~InRange(b, st.mindex, 55) THEN [st EXCEPT !.err = "RangeError"]
  ELSE LET o == st.mindex
           flags2 == readUInt8(b, o + 49)
           flags4 == readUInt8(b, o + 51)
           has1 == BitSet(flags4, 1)
           m1 == o + 55
           flagOk == InRange(b, m1 + 20, 1)
           buffer1_flag == IF has1 /\ flagOk THEN readUInt8(b, m1 + 20) ELSE 0
           has2 == has1 /\ BitSet(buffer1_flag, 1)
           m2 == IF has1 THEN m1 + 24 ELSE m1
           m3 == IF has2 THEN m2 + 20 ELSE m2
           has3 == BitSet(flags4, 2)
           m4 == IF has3 THEN m3 + 44 ELSE m3
           has4 == BitSet(flags2, 64)
           m5 == IF has4 THEN m4 + 17 ELSE m4
           obj == [x |-> i % mapsizedata[tiles].x,
                   y |-> i \div mapsizedata[tiles].x,
                   hex_location |-> o,
                   int16_1 |-> readInt16LE(b, o),
                   int16_2 |-> readInt16LE(b, o + 2),
                   int16_3 |-> readInt16LE(b, o + 4),
                   int16_4 |-> readInt16LE(b, o + 8),
                   landmass |-> readInt32LE(b, o + 8),
                   terrain |-> readUInt32LE(b, o + 12),
                   feature |-> readUInt32LE(b, o + 16),
                   natural_wonder |-> readInt16LE(b, o + 20),
                   continent |-> readUInt32LE(b, o + 22),
                   number_of_units |-> readInt8(b, o + 26),
                   resource |-> readUInt32LE(b, o + 27),
                   resource_boolean |-> readInt16LE(b, o + 31),
                   improvement |-> readUInt32LE(b, o + 33),
                   improvement_owner |-> readInt8(b, o + 37),
                   road_level |-> readInt16LE(b, o + 38),
                   appeal |-> readInt16LE(b, o + 40),
                   river_e |-> readInt8(b, o + 42),
                   river_se |-> readInt8(b, o + 43),
                   river_sw |-> readInt8(b, o + 44),
                   river_count |-> readUInt8(b, o + 45),
                   river_map |-> readUInt8(b, o + 46),
                   cliff_map |-> readUInt8(b, o + 47),
                   flags1 |-> readUInt8(b, o + 48),
                   flags2 |-> flags2,
                   flags3 |-> readUInt8(b, o + 50),
                   flags4 |-> flags4,
                   flags5 |-> readUInt8(b, o + 52),
                   flags6 |-> readUInt8(b, o + 53),
                   flags7 |-> readUInt8(b, o + 54),
                   buffer1 |-> IF has1 THEN Hex(Slice(b, m1, m1 + 24)) ELSE <<>>,
                   buffer1_flag |-> IF has1 THEN <<buffer1_flag>> ELSE <<>>,
                   buffer2 |-> IF has2 THEN Hex(Slice(b, m2, m2 + 20)) ELSE <<>>,
                   buffer3 |-> IF has3 THEN Hex(Slice(b, m3, m3 + 44)) ELSE <<>>,
                   buffer4 |-> IF has4 THEN Hex(Slice(b, m4, m4 + 17)) ELSE <<>>,
                   tile_length |-> m5 - o]
       IN IF has1 /\ ~flagOk THEN [st EXCEPT !.err = "RangeError"]
          ELSE [mindex |-> m5, tiles |-> Append(st.tiles, obj), err |-> ""]

\* The iterations lo .. hi-1 of the loop, in order.
RECURSIVE MapLoop(_, _, _, _, _)
MapLoop(b, tiles, st, lo, hi) ==
  IF hi <= lo \/ st.err # "" THEN st
  ELSE IF hi = lo + 1 THEN MapStep(b, tiles, st, lo)
  ELSE LET mid == lo + ((hi - lo) \div 2)
       IN MapLoop(b, tiles, MapLoop(b, tiles, st, lo, mid), mid, hi)

\* savetomapjson of src/unnamed/part_000 from line 146 on, b being the
\* Buffer decompress returned: map.tiles, or the error thrown.
MapJson(b) ==
  LET mapstartindex == IndexOf(b, searchBuffer, 0)
  IN IF ~InRange(b, mapstartindex + 12, 4) THEN Throw("RangeError")
     ELSE LET tiles == readInt32LE(b, mapstartindex + 12)
              st == MapLoop(b, tiles, [mindex |-> mapstartindex + 16,
                                       tiles |-> <<>>, err |-> ""], 0, tiles)
          IN IF st.err # "" THEN Throw(st.err) ELSE Ok(st.tiles)

\* savetomapjson of src/index.js, lines 153-202: one iteration of the loop.
MapStepIndex(b, tiles, st, i) ==
  IF st.err # "" THEN st
  ELSE IF ~InRange(b, st.mindex + 49, 1) \/ ~InRange(b, st.mindex + 51, 1)
  THEN [st EXCEPT !.err = "RangeError"]
  ELSE IF tiles \notin DOMAIN mapsizedata THEN [st EXCEPT !.err = "TypeError"]
  ELSE IF ~InRange(b, st.mindex, 55) THEN [st EXCEPT !.err = "RangeError"]
  ELSE LET o == st.mindex
           num1 == readUInt8(b, o + 49)
           num2 == readUInt8(b, o + 51)
           buflength == (IF BitSet(num1, 64) THEN 17 ELSE 0)
                        + (IF BitSet(num2, 1) THEN 24 ELSE 0)
                        + (IF BitSet(num2, 2) THEN 44 ELSE 0)
           obj == [x |-> i % mapsizedata[tiles].x,
                   y |-> i \div mapsizedata[tiles].x,
                   hex_location |-> o,
                   tile_length |-> 55 + buflength,
                   int16_1 |-> readUInt16LE(b, o),
                   int16_2 |-> readUInt16LE(b, o + 2),
                   int16_3 |-> readUInt16LE(b, o + 4),
                   int16_4 |-> readUInt16LE(b, o + 8),
                   landmass |-> readUInt32LE(b, o + 8),
                   terrain |-> readUInt32LE(b, o + 12),
                   feature |-> readUInt32LE(b, o + 16),
                   natural_wonder |-> readInt16LE(b, o + 20),
                   continent |-> readUInt32LE(b, o + 22),
                   number_of_units |-> readInt8(b, o + 26),
                   resource_type |-> readUInt32LE(b, o + 27),
                   resource_boolean |-> readInt16LE(b, o + 31),
                   improvement |-> readUInt32LE(b, o + 33),
                   improvement_player |-> readUInt8(b, o + 37),
                   road_level |-> readUInt8(b, o + 38),
                   road_level_2 |-> readUInt8(b, o + 39),
                   appeal |-> readInt16LE(b, o + 40),
                   river_e |-> readUInt8(b, o + 42),
                   river_se |-> readUInt8(b, o + 43),
                   river_sw |-> readUInt8(b, o + 44),
                   river_count |-> readUInt8(b, o + 45),
                   river_map |-> readUInt8(b, o + 46),
                   cliff_map |-> readInt8(b, o + 47),
                   flags1 |-> readUInt8(b, o + 48),
                   flags2 |-> readUInt8(b, o + 49),
                   flags3 |-> readUInt8(b, o + 50),
                   flags4 |-> readUInt8(b, o + 51),
                   flags5 |-> readUInt8(b, o + 52),
                   flags6 |-> readUInt8(b, o + 53),
                   flags7 |-> readUInt8(b, o + 54),
                   buffer |-> Hex(Slice(b, o + 55, o + 55 + buflength))]
       IN [mindex |-> o + 55 + buflength, tiles |-> Append(st.tiles, obj), err |-> ""]

\* The iterations lo .. hi-1 of the loop, in order.
RECURSIVE MapLoopIndex(_, _, _, _, _)
MapLoopIndex(b, tiles, st, lo, hi) ==
  IF hi <= lo \/ st.err # "" THEN st
  ELSE IF hi = lo + 1 THEN MapStepIndex(b, tiles, st, lo)
  ELSE LET mid == lo + ((hi - lo) \div 2)
       IN MapLoopIndex(b, tiles, MapLoopIndex(b, tiles, st, lo, mid), mid, hi)

\* savetomapjson of src/index.js from line 146 on.
MapJsonIndex(b) ==
  LET mapstartindex == IndexOf(b, searchBuffer, 0)
  IN IF ~InRange(b, mapstartindex + 12, 4) THEN Throw("RangeError")
     ELSE LET tiles == readInt32LE(b, mapstartindex + 12)
              st == MapLoopIndex(b, tiles, [mindex |-> mapstartindex + 16,
                                            tiles |-> <<>>, err |-> ""], 0, tiles)
          IN IF st.err # "" THEN Throw(st.err) ELSE Ok(st.tiles)

----------------------------------------------------------------------------
(* The exported functions that compose the two layers *)

\* modify(savefile, callback).  A callback is "identity" (the default,
\* x => x) or the tile pass of modifytiles with a per-tile callback m,
\* <<"tiles", m>>.
CallBack(callback, b) ==
  IF callback = <<"identity">> THEN Ok(b) ELSE TilePass(b, callback[2])

modify(civsav, callback) ==
  LET b == decompress(civsav)
  IN IF ~b.ok THEN b
     ELSE LET moddedbin == CallBack(callback, b.val)
          IN IF ~moddedbin.ok THEN moddedbin
             ELSE [Ok(recompress(civsav, moddedbin.val)) EXCEPT !.calls = moddedbin.calls]

modifytiles(civsav, m) == modify(civsav, <<"tiles", m>>)

\* savetomapjson of src/unnamed/part_000
savetomapjson(civsav) ==
  LET b == decompress(civsav)
  IN IF ~b.ok THEN b ELSE MapJson(b.val)

\* savetomapjson of src/index.js
savetomapjsonIndex(civsav) ==
  LET b == decompress(civsav)
  IN IF ~b.ok THEN b ELSE MapJsonIndex(b.val)

----------------------------------------------------------------------------
(* The inputs: save files laid out as the game writes them, and others *)

\* n bytes that are neither 00 nor FF nor part of a marker
Filler(n) == [i \in 1..n |-> 1 + (i % 5)]

\* A blob of Filler that deflates to exactly len bytes
BlobOfCompressedLen(len) == Filler(len - Len(Deflate(<<>>)) - Len(StoredBlock(<<>>)))

\* A tile record as the game lays it out: the 55-byte header with terrain t,
\* flags2 f2 and flags4 f4, then the 24 bytes announced by f4 & 1 (their byte
\* 20 is bf) and the 20 bytes announced by bf & 1, the 44 bytes announced by
\* f4 & 2, and the 17 bytes announced by f2 & 64.
TileRecord(t, f2, f4, bf) ==
  [k \in 1..55 |-> IF k = 13 THEN t ELSE IF k = 50 THEN f2 ELSE IF k = 52 THEN f4 ELSE 0]
  \o (IF BitSet(f4, 1) THEN [k \in 1..24 |-> IF k = 21 THEN bf ELSE 17] ELSE <<>>)
  \o (IF BitSet(f4, 1) /\ BitSet(bf, 1) THEN [k \in 1..20 |-> 34] ELSE <<>>)
  \o (IF BitSet(f4, 2) THEN [k \in 1..44 |-> 51] ELSE <<>>)
  \o (IF BitSet(f2, 64) THEN [k \in 1..17 |-> 68] ELSE <<>>)

\* A blob holding a tile table: pad, the marker, the count, the records
TableBlob(pad, count, records) == pad \o searchBuffer \o Int32LE(count) \o records

\* The flags (f2, f4, bf) of the records of the small tables
FlagCases ==
  {<<0, 0, 0>>, <<0, 1, 0>>, <<0, 1, 1>>, <<0, 2, 0>>, <<64, 0, 0>>,
   <<128, 0, 0>>, <<64, 3, 1>>, <<0, 4, 0>>}

OneTileBlobs == {TableBlob(<<9>>, 1, TileRecord(3, f[1], f[2], f[3])) : f \in FlagCases}

TwoTileBlobs ==
  {TableBlob(<<>>, 2, TileRecord(3, f[1], f[2], f[3]) \o TileRecord(4, 0, 0, 0)) :
     f \in FlagCases}

\* Tables of no tile, of a negative count, and blobs without the marker
EdgeBlobs ==
  {TableBlob(<<>>, 0, <<>>), TableBlob(<<9, 9>>, 0, Filler(3)),
   TableBlob(<<>>, -1, TileRecord(3, 0, 0, 0)),
   <<>>, Filler(7), Filler(15), Filler(20),
   Filler(11) \o Int32LE(1) \o TileRecord(3, 0, 0, 0),
   Filler(11) \o Int32LE(0) \o Filler(4)}

\* A table of the smallest recognized size, 1144 tiles (44 x 26): the first
\* records carry the sub-buffers listed in lead, the others none.
BigBlob(lead) ==
  LET first == IF lead = 0 THEN <<>>
               ELSE TileRecord(1, 0, 1, 0) \o TileRecord(2, 0, 1, 1)
                    \o TileRecord(3, 0, 2, 0) \o TileRecord(4, 64, 0, 0)
                    \o TileRecord(5, 64, 3, 1) \o TileRecord(6, 128, 0, 0)
      nfirst == IF lead = 0 THEN 0 ELSE 6
      rest == [k \in 1..((1144 - nfirst) * 55) |->
                 IF (k - 1) % 55 = 12 THEN 1 + (((k - 1) \div 55) % 7) ELSE 0]
  IN TableBlob(<<9, 9, 9>>, 1144, first \o rest)

BigBlobs == {BigBlob(0), BigBlob(1)}

\* The bins of the tile layer
Bins == OneTileBlobs \cup TwoTileBlobs \cup EdgeBlobs \cup BigBlobs

\* The zlib stream of blob as a deflate with other settings writes it (the
\* game's): the same bytes in two blocks instead of one.
DeflateSplit(blob) ==
  LET h == Len(blob) \div 2
  IN ZlibStart
     \o (IF h = 0 THEN DeflateBlocks(blob)
         ELSE StoredBlock(SubSeq(blob, 1, h)) \o StoredBlock(SubSeq(blob, h + 1, Len(blob))))
     \o StoredBlock(<<>>)

\* A save file: what precedes the last MOD_TITLE, the marker, the bytes up
\* to the compressed stream, the framed stream, and what follows.
Container(pre, mid, stream, tail) ==
  pre \o MOD_TITLE \o mid \o Frame(stream) \o tail

\* (pre, mid, tail) of the save files: nothing around the stream; an
\* earlier compressed buffer before the marker, as real saves have; bytes
\* after the stream, the first of them FF or not.
Layouts ==
  {<<<<>>, <<>>, <<>>>>,
   <<ZlibStart \o <<3>> \o SyncFlush, <<7>>, <<>>>>,
   <<ZlibStart \o <<3>> \o SyncFlush \o MOD_TITLE, <<>>, <<1, 0>>>>,
   <<<<5>>, <<7, 7>>, <<255, 2>>>>}

\* The blobs inside the initial save files and those handed to recompress
Blobs ==
  {<<>>, Filler(3),
   BlobOfCompressedLen(CHUNK_LENGTH),
   BlobOfCompressedLen(CHUNK_LENGTH + 1),
   BlobOfCompressedLen(CHUNK_LENGTH + 10),
   BlobOfCompressedLen(2 * CHUNK_LENGTH + 1),
   TableBlob(<<>>, 0, <<>>),
   TableBlob(Filler(2 * CHUNK_LENGTH + 1 - Len(Deflate(TableBlob(<<>>, 0, <<>>)))), 0, <<>>),
   TableBlob(<<9>>, 1, TileRecord(3, 64, 1, 0))}

\* Buffers that are no save file: they hold no MOD_TITLE
NoTitle ==
  {Frame(Deflate(Filler(3))),
   <<1>> \o Frame(Deflate(Filler(3))) \o <<2>>, SyncFlush \o ZlibStart}

\* A save file whose blob holds a table of 1144 tiles, laid out as real
\* saves are: an earlier compressed buffer, MOD_TITLE, the stream.  Bytes
\* of Filler before the table make the blob one that recompress deflates
\* to a multiple of CHUNK_LENGTH plus r bytes.
BigBlobPast(r) ==
  LET t == BigBlob(1)
      k == (CHUNK_LENGTH + r - (Len(Deflate(t)) % CHUNK_LENGTH)) % CHUNK_LENGTH
  IN Filler(k) \o t

BigContainer(r) ==
  Container(ZlibStart \o <<3>> \o SyncFlush, <<7>>, DeflateSplit(BigBlobPast(r)), <<2>>)

Containers ==
  {Container(l[1], l[2], Deflate(b), l[3]) : l \in Layouts, b \in Blobs}
  \cup {Container(l[1], l[2], DeflateSplit(b), l[3]) : l \in Layouts, b \in Blobs}
  \cup NoTitle

\* The save files with a table of 1144 tiles: one whose blob recompress
\* deflates to one byte more than a multiple of CHUNK_LENGTH, one to five.
BigContainers == {BigContainer(1), BigContainer(5)}

----------------------------------------------------------------------------
(* The container layer: the exported functions called on a save file *)

NoArg == [binfile |-> <<>>, callback |-> ""]

Init ==
  /\ savefile \in Containers
  /\ bin = <<>>
  /\ op = ""
  /\ arg = NoArg
  /\ out = NoResult
  /\ orig = <<>>
  /\ round = 0

\* decompress(savefile)
DoDecompress ==
  /\ op = ""
  /\ op' = "decompress"
  /\ arg' = NoArg
  /\ out' = decompress(savefile)
  /\ UNCHANGED <<savefile, bin, orig, round>>

\* recompress(savefile, binfile)
DoRecompress ==
  \E b \in Blobs :
    /\ op = ""
    /\ op' = "recompress"
    /\ arg' = [binfile |-> b, callback |-> ""]
    /\ out' = Ok(recompress(savefile, b))
    /\ UNCHANGED <<savefile, bin, orig, round>>

\* modify(savefile), the callback being the default x => x
DoModify ==
  /\ op = ""
  /\ op' = "modify"
  /\ arg' = [binfile |-> <<>>, callback |-> "identity"]
  /\ out' = modify(savefile, <<"identity">>)
  /\ UNCHANGED <<savefile, bin, orig, round>>

\* modifytiles(savefile, callback)
DoModifyTiles ==
  \E m \in Mutators :
    /\ op = ""
    /\ op' = "modifytiles"
    /\ arg' = [binfile |-> <<>>, callback |-> m]
    /\ out' = modifytiles(savefile, m)
    /\ UNCHANGED <<savefile, bin, orig, round>>

\* savetomapjson(savefile), src/unnamed/part_000
DoSaveToMapJson ==
  /\ op = ""
  /\ op' = "savetomapjson"
  /\ arg' = NoArg
  /\ out' = savetomapjson(savefile)
  /\ UNCHANGED <<savefile, bin, orig, round>>

\* savetomapjson(savefile), src/index.js
DoSaveToMapJsonIndex ==
  /\ op = ""
  /\ op' = "savetomapjsonIndex"
  /\ arg' = NoArg
  /\ out' = savetomapjsonIndex(savefile)
  /\ UNCHANGED <<savefile, bin, orig, round>>

\* The save modify returned is the savefile of the next calls.
Reload ==
  /\ op = "modify"
  /\ out.ok
  /\ round < MaxRounds
  /\ savefile' = out.val
  /\ round' = round + 1
  /\ orig' = IF round = 0 THEN savefile ELSE orig
  /\ op' = ""
  /\ arg' = NoArg
  /\ out' = NoResult
  /\ UNCHANGED bin

Next ==
  \/ DoDecompress
  \/ DoRecompress
  \/ DoModify
  \/ DoModifyTiles
  \/ DoSaveToMapJson
  \/ DoSaveToMapJsonIndex
  \/ Reload

Spec == Init /\ [][Next]_vars

\* The life of a save file through modify, the save files of real size
\* among them: modify, its result read back, and the decoders.
InitSaves ==
  /\ savefile \in Containers \cup BigContainers
  /\ bin = <<>>
  /\ op = ""
  /\ arg = NoArg
  /\ out = NoResult
  /\ orig = <<>>
  /\ round = 0

NextSaves ==
  \/ DoDecompress
  \/ DoModify
  \/ DoSaveToMapJson
  \/ DoSaveToMapJsonIndex
  \/ Reload

SpecSaves == InitSaves /\ [][NextSaves]_vars

----------------------------------------------------------------------------
(* The tile layer: the tile codecs run on bin, the Buffer that decompress  *)
(* returned to modify (line 80) or to savetomapjson (line 145)             *)

InitTiles ==
  /\ bin \in Bins
  /\ savefile = <<>>
  /\ op = ""
  /\ arg = NoArg
  /\ out = NoResult
  /\ orig = <<>>
  /\ round = 0

\* The callback of modifytiles, run on bin with the per-tile callback m
TilePassStep ==
  \E m \in Mutators :
    /\ op = ""
    /\ op' = "tilepass"
    /\ arg' = [binfile |-> <<>>, callback |-> m]
    /\ out' = TilePass(bin, m)
    /\ UNCHANGED <<savefile, bin, orig, round>>

\* savetomapjson of src/unnamed/part_000 from line 146 on
MapJsonStep ==
  /\ op = ""
  /\ op' = "mapjson"
  /\ arg' = NoArg
  /\ out' = MapJson(bin)
  /\ UNCHANGED <<savefile, bin, orig, round>>

\* savetomapjson of src/index.js from line 146 on
MapJsonIndexStep ==
  /\ op = ""
  /\ op' = "mapjsonIndex"
  /\ arg' = NoArg
  /\ out' = MapJsonIndex(bin)
  /\ UNCHANGED <<savefile, bin, orig, round>>

NextTiles ==
  \/ TilePassStep
  \/ MapJsonStep
  \/ MapJsonIndexStep

SpecTiles == InitTiles /\ [][NextTiles]_vars

----------------------------------------------------------------------------
(* The claims about the container layer, checked under Spec; the one     *)
(* about modify and the tile view under SpecSaves                         *)

\* The boundaries of the compressed span of a save file c
ModIndex(c) == LastIndexOf(c, MOD_TITLE)
BufStart(c) == IndexOf(c, ZlibStart, ModIndex(c))
BufEnd(c) == LastIndexOf(c, SyncFlush)

\* c holds the markers decode needs
MarkersPresent(c) == ModIndex(c) >= 0 /\ BufStart(c) >= 0 /\ BufEnd(c) >= 0

\* c holds the markers in order, and decompress returns its blob
ValidContainer(c) ==
  /\ MarkersPresent(c)
  /\ BufStart(c) < BufEnd(c)
  /\ decompress(c).ok

\* C1: for every valid container and every blob B, decompress of
\* recompress(container, B) returns B, whatever the compressed length.
PayloadRoundTrip ==
  (op = "recompress" /\ ValidContainer(savefile)
     /\ decompress(out.val).err # "unmodelled")
    => decompress(out.val) = Ok(arg.binfile)

\* r is c with the span from start through end + 4 replaced by framed
SpliceOk(c, framed, r) ==
  LET start == BufStart(c)
      rest == BufEnd(c) + 4
  IN /\ Len(r) = start + Len(framed) + (Len(c) - rest)
     /\ \A i \in 1..start : r[i] = c[i]
     /\ \A i \in 1..Len(framed) : r[start + i] = framed[i]
     /\ \A i \in (rest + 1)..Len(c) : r[start + Len(framed) + (i - rest)] = c[i]

\* C2: recompress(container, blob) returns container[0, start), the new
\* framed stream, container[end + 4, length), start being the first 78 9C
\* at or after the last MOD_TITLE and end the last 00 00 FF FF of the file;
\* the container handed in is left as it was.
EncodeSplicesSpan ==
  [][(op' = "recompress" /\ MarkersPresent(savefile))
       => /\ savefile' = savefile
          /\ out'.ok
          /\ SpliceOk(savefile, Frame(Deflate(arg'.binfile)), out'.val)]_vars

EncodeSplicesSpanWitness ==
  /\ op = "recompress"
  /\ MarkersPresent(savefile)
  /\ BufStart(savefile) > Len(MOD_TITLE)
  /\ BufEnd(savefile) + 4 < Len(savefile)
  /\ Len(arg.binfile) > CHUNK_LENGTH
  /\ out.val # savefile

\* framed is comp cut in chunks of CHUNK_LENGTH bytes, the first as it is,
\* every later one after the 4 bytes of its own length, little-endian
FramedOk(comp, framed) ==
  LET L == Len(comp)
      n == (L + CHUNK_LENGTH - 1) \div CHUNK_LENGTH
  IN /\ Len(framed) = IF L = 0 THEN 0 ELSE L + 4 * (n - 1)
     /\ \A k \in 0..(n - 1) :
          LET clen == Min(CHUNK_LENGTH, L - k * CHUNK_LENGTH)
              at == k * (CHUNK_LENGTH + 4)
          IN /\ \A j \in 1..clen : framed[at + j] = comp[k * CHUNK_LENGTH + j]
             /\ k >= 1 =>
                  /\ framed[at - 3] + 256 * framed[at - 2] + 65536 * framed[at - 1] = clen
                  /\ framed[at] = 0

\* The framed stream inside the save recompress returned
FramedPart(c, r) ==
  SubSeq(r, BufStart(c) + 1, Len(r) - (Len(c) - (BufEnd(c) + 4)))

\* C6: recompress emits a compressed stream of L bytes as a first chunk of
\* min(L, CHUNK_LENGTH) bytes without prefix and every later chunk after a
\* 4-byte little-endian field holding that chunk's length; the framed
\* length is L + 4 * (ceil(L / CHUNK_LENGTH) - 1).
ChunkFraming ==
  (op = "recompress" /\ MarkersPresent(savefile))
    => FramedOk(Deflate(arg.binfile), FramedPart(savefile, out.val))

\* L = CHUNK_LENGTH + 10: a full chunk, a length field of 10, ten bytes
ChunkFramingWitness ==
  /\ op = "recompress"
  /\ MarkersPresent(savefile)
  /\ Len(Deflate(arg.binfile)) = CHUNK_LENGTH + 10
  /\ LET f == FramedPart(savefile, out.val)
     IN /\ Len(f) = CHUNK_LENGTH + 14
        /\ SubSeq(f, CHUNK_LENGTH + 1, CHUNK_LENGTH + 4) = <<10, 0, 0, 0>>

\* L = CHUNK_LENGTH exactly: one chunk and no length field
ChunkFramingExactWitness ==
  /\ op = "recompress"
  /\ MarkersPresent(savefile)
  /\ Len(Deflate(arg.binfile)) = CHUNK_LENGTH
  /\ FramedPart(savefile, out.val) = Deflate(arg.binfile)

\* C7: decompress of a container that holds no MOD_TITLE fails, and returns
\* no blob.
NoTitleDecodeFails ==
  (op = "decompress" /\ ModIndex(savefile) = -1) => ~out.ok

\* The save file as it was before the first modify
Original == IF round = 0 THEN savefile ELSE orig

\* C5: for every valid container, the tiles savetomapjson reads from
\* modify(container) and from modify(modify(container)) are those it reads
\* from the container: as many, and each with the same fields and
\* sub-buffers.  Stated of the containers whose table holds tiles.
NoOpIdempotence ==
  (op = "modify" /\ ValidContainer(Original))
    => LET before == savetomapjson(Original)
           after == savetomapjson(out.val)
       IN (before.ok /\ before.val # <<>> /\ out.err # "unmodelled"
             /\ (out.ok => after.err # "unmodelled"))
            => /\ out.ok
               /\ after = before
               /\ savetomapjsonIndex(out.val) = savetomapjsonIndex(Original)

\* modify has run twice on a save file of 1144 tiles
NoOpIdempotenceReached ==
  /\ op = "modify"
  /\ round = 2
  /\ ValidContainer(Original)
  /\ Len(savetomapjson(Original).val) = 1144

----------------------------------------------------------------------------
(* The claims about the tile layer, checked under SpecTiles *)

\* The tile table of b: where the marker is, and the count after it
TableAt(b) == IndexOf(b, searchBuffer, 0)
TableLocated(b) == TableAt(b) >= 0 /\ InRange(b, TableAt(b) + 12, 4)
TileCount(b) == readInt32LE(b, TableAt(b) + 12)

\* The sub-buffers the flags of the record at offset o of b announce
HasA(b, o) == BitSet(b[o + 52], 1)
HasB(b, o) == HasA(b, o) /\ InRange(b, o + 75, 1) /\ BitSet(b[o + 76], 1)
HasC(b, o) == BitSet(b[o + 52], 2)
HasD(b, o) == BitSet(b[o + 50], 64)

RecordLength(b, o) ==
  55 + (IF HasA(b, o) THEN 24 ELSE 0) + (IF HasB(b, o) THEN 20 ELSE 0)
     + (IF HasC(b, o) THEN 44 ELSE 0) + (IF HasD(b, o) THEN 17 ELSE 0)

\* The records t of a decoded table obey the rule: the reported length is
\* the one the flags announce, and the next record starts that much later.
LengthsMatchFlags(b, tiles) ==
  \A i \in 1..Len(tiles) :
    /\ tiles[i].tile_length = RecordLength(b, tiles[i].hex_location)
    /\ i < Len(tiles) =>
         tiles[i + 1].hex_location
           = tiles[i].hex_location + RecordLength(b, tiles[i].hex_location)

\* The four sub-buffers of a record of part_000's decoder are present as
\* the flags announce, each with its length (two hex digits a byte).
BuffersMatchFlags(b, tiles) ==
  \A i \in 1..Len(tiles) :
    LET t == tiles[i]
        o == t.hex_location
    IN /\ Len(t.buffer1) = IF HasA(b, o) THEN 48 ELSE 0
       /\ Len(t.buffer2) = IF HasB(b, o) THEN 40 ELSE 0
       /\ Len(t.buffer3) = IF HasC(b, o) THEN 88 ELSE 0
       /\ Len(t.buffer4) = IF HasD(b, o) THEN 34 ELSE 0

\* C3: for every record savetomapjson produces, sub-buffer A is present iff
\* flags4 & 1, B iff A is and byte 20 of A has bit 0 set, C iff flags4 & 2,
\* D iff flags2 & 0x40; the reported length is 55 plus the lengths of the
\* sub-buffers present, and the next record starts that many bytes later.
\* Stated of both savetomapjson, src/unnamed/part_000 and src/index.js.
SubBuffersMatchFlags ==
  /\ (op = "mapjson" /\ out.ok)
       => LengthsMatchFlags(bin, out.val) /\ BuffersMatchFlags(bin, out.val)
  /\ (op = "mapjsonIndex" /\ out.ok)
       => /\ LengthsMatchFlags(bin, out.val)
          /\ \A i \in 1..Len(out.val) :
               Len(out.val[i].buffer) = 2 * (out.val[i].tile_length - 55)

\* The same of the savetomapjson of src/unnamed/part_000 alone, which holds.
SubBuffersMatchFlagsPart000 ==
  (op = "mapjson" /\ out.ok)
    => LengthsMatchFlags(bin, out.val) /\ BuffersMatchFlags(bin, out.val)

SubBuffersMatchFlagsPart000Witness ==
  /\ op = "mapjson"
  /\ out.ok
  /\ \E i \in 1..6 : Len(out.val[i].buffer2) = 40 /\ Len(out.val[i].buffer4) = 34

\* C4: for a blob with a located tile table and a per-tile callback that
\* keeps the length and the flags, the i-th run modifytiles hands to the
\* callback starts where the i-th record of savetomapjson starts and is as
\* long, for every i below the tile count.
TilePassWalksDecodeOrder ==
  (op = "tilepass" /\ arg.callback \in {"identity", "terrain"}
     /\ TableLocated(bin) /\ MapJson(bin).ok)
    => LET tiles == MapJson(bin).val
       IN /\ out.ok
          /\ Len(out.calls) = Len(tiles)
          /\ \A i \in 1..Len(tiles) :
               /\ out.calls[i].off = tiles[i].hex_location
               /\ out.calls[i].len = tiles[i].tile_length

\* The first record of the table of b can be handed to the callback, and
\* bytes follow it in b.
HandsARecord(b) ==
  /\ TableLocated(b)
  /\ TileCount(b) >= 1
  /\ Len(b) > TableAt(b) + 16 + RecordLength(b, TableAt(b) + 16)

\* C8: a callback that returns a run of another length than the record it
\* was given is rejected with RecordLengthMismatch.
LengthMismatchRejected ==
  (op = "tilepass" /\ arg.callback \in {"grow", "shrink"} /\ HandsARecord(bin))
    => ~out.ok /\ out.err = "RecordLengthMismatch"

\* C9: when the 12-byte marker does not occur in the blob, savetomapjson
\* and modifytiles fail, and read no count and no record.
NoTableMarkerFails ==
  (op \in {"tilepass", "mapjson", "mapjsonIndex"} /\ TableAt(bin) = -1)
    => ~out.ok

\* The row widths of the recognized tile counts
RowWidth ==
  (1144 :> 44) @@ (2280 :> 60) @@ (3404 :> 74) @@ (4536 :> 84) @@ (5760 :> 96)
  @@ (6996 :> 106)

\* C10: savetomapjson fails for every tile count that is not recognized,
\* zero and negative counts included, and for a recognized count of row
\* width W gives record i the coordinates x = i mod W, y = floor(i / W).
UnsupportedSizeFails ==
  (op \in {"mapjson", "mapjsonIndex"} /\ TableLocated(bin))
    => IF TileCount(bin) \notin DOMAIN RowWidth THEN ~out.ok
       ELSE out.ok =>
              /\ Len(out.val) = TileCount(bin)
              /\ \A i \in 1..Len(out.val) :
                   /\ out.val[i].x = (i - 1) % RowWidth[TileCount(bin)]
                   /\ out.val[i].y = (i - 1) \div RowWidth[TileCount(bin)]

============================================================================
